---- MODULE Spec2Model ----
(***************************************************************************)
(* Model of cli/bulk_fix_chdir.py: the regex rule chain of fix_test_file   *)
(* and the directory walk, backup and overwrite of main.                   *)
(*                                                                         *)
(* A text is a sequence of tokens.  Every token is the literal piece of    *)
(* text it is written as, so the text a sequence stands for is the         *)
(* concatenation of its tokens.  The tokens are cut so that no regular     *)
(* expression of the source can match across the inside of a token: the    *)
(* whitespace characters, the parentheses of the renamed call and the      *)
(* quoted file name are tokens of their own.                               *)
(***************************************************************************)
EXTENDS Integers, Sequences, FiniteSets, TLC

\* ---------------------------------------------------------------- tokens
SP == " "
TAB == "\t"
NL == "\n"
CR == "\r"

S1 == "origDir, _ := os.Getwd()"
S2 == "defer os.Chdir(origDir)"
S3 == "tempDir := t.TempDir()"
S4 == "os.Chdir(tempDir)"
CSave == "// Save and restore working directory"
CGiven == "// Given:"
WID == "WithIsolatedDirectory(t, func(workingDir string) {"

GFRC == "getFreshRootCmd"
PARENS == "()"
GCID == "GetCommandInDirectory(workingDir)"

AFE == "assert.FileExists(t,"
OWF == "os.WriteFile("
ORF == "os.ReadFile("
DDX == "\".ddx.yml\""
FJ == "filepath.Join(workingDir,"
RP == ")"
X == "x"

\* \s of the re module
IsSpace(t) == t \in {SP, TAB, NL, CR}

\* . of the re module (no DOTALL): every character but the newline
IsDot(t) == t # NL

\* the token at position k, "" past either end of the text
Tok(text, k) == IF k >= 1 /\ k <= Len(text) THEN text[k] ELSE ""

\* \s* from position i, greedy: the position after the whitespace run
RECURSIVE SpaceRun(_, _)
SpaceRun(text, i) ==
  IF i <= Len(text) /\ IsSpace(text[i]) THEN SpaceRun(text, i + 1) ELSE i

\* .* from position p, greedy: the position of the next newline or the end
RECURSIVE LineEnd(_, _)
LineEnd(text, p) ==
  IF p <= Len(text) /\ IsDot(text[p]) THEN LineEnd(text, p + 1) ELSE p

Max(S) == CHOOSE m \in S : \A k \in S : k <= m

\* -------------------------------------------------- the rules, lines 21-33
Rules == <<"r1", "r2", "r3a", "r3b", "r3c">>

pattern2 == <<GFRC, PARENS>>
replacement2 == <<GCID>>
pattern3a == <<AFE, SP, DDX>>
\* the replacement without the parenthesis that closes filepath.Join
replacement3aOpen == <<AFE, SP, FJ, SP, DDX>>
replacement3a == <<AFE, SP, FJ, SP, DDX, RP>>
pattern3b == <<OWF, DDX>>
replacement3b == <<OWF, FJ, SP, DDX, RP>>
\* the pattern cut short: the call without the quoted name
pattern3cShort == <<ORF>>
pattern3c == <<ORF, DDX>>
replacement3c == <<ORF, FJ, SP, DDX, RP>>

Pattern(r) ==
  CASE r = "r2" -> pattern2
    [] r = "r3a" -> pattern3a
    [] r = "r3b" -> pattern3b
    [] r = "r3c" -> pattern3c

Replacement(r) ==
  CASE r = "r2" -> replacement2
    [] r = "r3a" -> replacement3a
    [] r = "r3b" -> replacement3b
    [] r = "r3c" -> replacement3c

\* a literal pattern at position i: the position after the match, 0 if none
MatchLit(pat, text, i) ==
  IF i + Len(pat) - 1 <= Len(text)
     /\ \A k \in 1..Len(pat) : text[i + k - 1] = pat[k]
  THEN i + Len(pat) ELSE 0

\* \s+tempDir := t\.TempDir\(\)\s+os\.Chdir\(tempDir\) at position k
TailEnd(text, k) ==
  LET r == SpaceRun(text, k)
      s == SpaceRun(text, r + 1)
  IN IF r > k /\ Tok(text, r) = S3 /\ s > r + 1 /\ Tok(text, s) = S4
     THEN s + 1 ELSE 0

\* pattern1 at position i: the position after the match, 0 if none.
\* (\s+) takes the whole whitespace run; the two comment groups are taken
\* when their text is there; .* is greedy, so the longest comment text
\* after which the rest of the pattern matches is the one taken.
MatchEnd1(text, i) ==
  LET a == SpaceRun(text, i)
      hasLead == Tok(text, a) = CSave
      b == IF hasLead THEN SpaceRun(text, a + 1) ELSE a
      c == SpaceRun(text, b + 1)
      d == SpaceRun(text, c + 1)
      hasGiven == Tok(text, d) = CGiven /\ Tok(text, d + 1) = SP
      ks == {k \in (d + 2)..LineEnd(text, d + 2) : TailEnd(text, k) > 0}
      s == SpaceRun(text, d + 1)
  IN IF a > i /\ (hasLead => b > a + 1) /\ Tok(text, b) = S1
        /\ c > b + 1 /\ Tok(text, c) = S2 /\ d > c + 1
     THEN IF hasGiven
          THEN IF ks = {} THEN 0 ELSE TailEnd(text, Max(ks))
          ELSE IF Tok(text, d) = S3 /\ s > d + 1 /\ Tok(text, s) = S4
               THEN s + 1 ELSE 0
     ELSE 0

\* the replacement without \1
replacement1NoGroup(text, i) == <<WID>>

\* replacement1: group 1 followed by the helper call
replacement1(text, i) == SubSeq(text, i, SpaceRun(text, i) - 1) \o <<WID>>

MatchEnd(r, text, i) ==
  IF r = "r1" THEN MatchEnd1(text, i) ELSE MatchLit(Pattern(r), text, i)

Repl(r, text, i) ==
  IF r = "r1" THEN replacement1(text, i) ELSE Replacement(r)

\* re.sub: the leftmost non-overlapping matches, each replaced once
RECURSIVE SubFrom(_, _, _)
SubFrom(r, text, i) ==
  IF i > Len(text) THEN <<>>
  ELSE LET e == MatchEnd(r, text, i)
       IN IF e > 0 THEN Repl(r, text, i) \o SubFrom(r, text, e)
          ELSE <<text[i]>> \o SubFrom(r, text, i + 1)

\* the rename made only where the helper call already stands in the text
SubScoped(r, text) ==
  IF r = "r2" /\ \A k \in 1..Len(text) : text[k] # WID
  THEN text ELSE SubFrom(r, text, 1)

Sub(r, text) == SubFrom(r, text, 1)

\* the number of substitutions re.sub makes
RECURSIVE SubnFrom(_, _, _)
SubnFrom(r, text, i) ==
  IF i > Len(text) THEN 0
  ELSE LET e == MatchEnd(r, text, i)
       IN IF e > 0 THEN 1 + SubnFrom(r, text, e) ELSE SubnFrom(r, text, i + 1)

Subn(r, text) == SubnFrom(r, text, 1)

\* lines 24-33 in the order of the code
Rewrite(text) == Sub("r3c", Sub("r3b", Sub("r3a", Sub("r2", Sub("r1", text)))))


\* ------------------------------------------------- text mode of open()
\* open(path, 'r').read(): universal newlines, \r\n and \r are read as \n
RECURSIVE ReadText(_)
ReadText(bytes) ==
  IF bytes = <<>> THEN <<>>
  ELSE IF Head(bytes) = CR
       THEN IF Len(bytes) >= 2 /\ bytes[2] = NL
            THEN <<NL>> \o ReadText(Tail(Tail(bytes)))
            ELSE <<NL>> \o ReadText(Tail(bytes))
       ELSE <<Head(bytes)>> \o ReadText(Tail(bytes))

\* open(path, 'w').write(text): \n is written as os.linesep
RECURSIVE WriteText(_, _)
WriteText(text, sep) ==
  IF text = <<>> THEN <<>>
  ELSE (IF Head(text) = NL THEN sep ELSE <<Head(text)>>)
       \o WriteText(Tail(text), sep)

\* ------------------------------------------------------------ file names
cmd_dir == "cmd"
TestSuffix == "_test.go"
BackupSuffix == ".backup"

\* filename.endswith('_test.go'): a name is the sequence of its parts
EndsWithTest(name) == Len(name) >= 1 /\ name[Len(name)] = TestSuffix

\* filepath + '.backup'
BackupOf(name) == name \o <<BackupSuffix>>

NoFile == <<"no file">>

\* ------------------------------------------------------- bounded inputs
MaxIndent == 1
MaxFiles == 2

\* the indentations: up to MaxIndent spaces and tabs
Indents == UNION {[1..n -> {SP, TAB}] : n \in 0..MaxIndent}

GivenLine(g) ==
  CASE g = "text" -> <<CGiven, SP, X>>
    [] g = "call" -> <<CGiven, SP, GFRC, PARENS>>
    [] g = "empty" -> <<CGiven, SP>>
    [] g = "nospace" -> <<CGiven, X>>

\* the idiom, one statement a line, every line indented alike: the optional
\* leading comment, the comment between the second and the third statement
\* (given), and a comment line after the last statement (after)
BlockText(ind, lead, given) ==
  (IF lead THEN <<CSave, NL>> \o ind ELSE <<>>)
  \o <<S1, NL>> \o ind \o <<S2, NL>> \o ind
  \o (IF given = "none" THEN <<>> ELSE GivenLine(given) \o <<NL>> \o ind)
  \o <<S3, NL>> \o ind \o <<S4>>

AfterText(ind, after) ==
  IF after THEN <<NL>> \o ind \o <<CGiven, SP, X>> ELSE <<>>

\* what stands before and after the idiom
PreSnips ==
  { <<>>, <<X>>, <<NL>>, <<X, NL>>, <<GFRC, PARENS, NL>>, <<GFRC>>,
    <<AFE, SP, DDX, RP, NL>>, <<OWF, DDX, RP>>, <<DDX>>, <<GCID, NL>> }

PostSnips ==
  { <<>>, <<NL, X>>, <<NL, GFRC, PARENS>>, <<NL, ORF, DDX, RP>>,
    <<SP, OWF, DDX, RP, NL>>, <<RP>> }

\* texts that come near the idiom without being it
NearText(core) ==
  CASE core = "none" -> <<>>
    [] core = "short" -> <<NL, S1, NL, S2, NL, S3>>
    [] core = "swapped" -> <<NL, S2, NL, S1, NL, S3, NL, S4>>
    [] core = "extra" -> <<NL, S1, NL, S2, NL, X, NL, S3, NL, S4>>
    [] core = "inline" -> <<SP, S1, SP, S2, SP, CGiven, SP, X, SP, S3, SP, S4>>
    [] core = "nested" -> <<SP, S1, SP, S2, SP, CGiven, SP, X, SP, S1, NL, S2,
                            NL, S3, NL, S4, NL, S3, SP, S4>>

Shapes ==
  [pre : PreSnips, core : {"block"}, ind : Indents, lead : BOOLEAN,
   given : {"none", "text", "call", "empty", "nospace"}, after : BOOLEAN,
   post : PostSnips]
  \cup
  [pre : PreSnips,
   core : {"none", "short", "swapped", "extra", "inline", "nested"},
   ind : {<<>>}, lead : {FALSE}, given : {"none"}, after : {FALSE},
   post : PostSnips]

NoShape ==
  [pre |-> <<>>, core |-> "none", ind |-> <<>>, lead |-> FALSE,
   given |-> "none", after |-> FALSE, post |-> <<>>]

InputOf(sh) ==
  IF sh.core = "block"
  THEN sh.pre \o sh.ind \o BlockText(sh.ind, sh.lead, sh.given)
       \o AfterText(sh.ind, sh.after) \o sh.post
  ELSE sh.pre \o NearText(sh.core) \o sh.post

\* the files a directory of the walk can hold
Names ==
  { <<"a", TestSuffix>>, <<"b", TestSuffix>>, <<"main", ".go">>,
    <<"a", TestSuffix, BackupSuffix>> }

AllNames == Names \cup {BackupOf(n) : n \in Names}

FileTexts ==
  { <<X, NL>>, <<GFRC, NL>>, <<X, CR, NL>>,
    <<GFRC, PARENS, NL>>, <<GFRC, PARENS, CR, NL>>, <<AFE, SP, DDX, RP, CR>>,
    <<NL, S1, NL, S2, NL, S3, NL, S4, NL>> }

LineSeps == {<<NL>>, <<CR, NL>>}

VARIABLES pc, shape, cmd_exists, linesep, disk0, disk, listing, filename, content,
          original_content, hist, result, fixed_count, stdout, ret, events,
          calls, applied

vars == <<pc, shape, cmd_exists, linesep, disk0, disk, listing, filename, content,
          original_content, hist, result, fixed_count, stdout, ret, events,
          calls, applied>>

mainVars == <<cmd_exists, disk0, listing, fixed_count, stdout, ret, applied>>
fixVars == <<filename, content, original_content, hist, result>>

\* ---------------------------------------------------------------- states
NoName == <<>>

\* ret is <<>> until main returns, then the code it returned
NoReturn == <<>>
EmptyDisk == [n \in AllNames |-> NoFile]

\* a printed line: its wording, the file name and the number in it
Line(l, name, k) == [line |-> l, name |-> name, n |-> k]

\* a call of the file system: open for reading and read, open for writing,
\* write and close; text is what was read or written
Event(o, name, text) == [op |-> o, name |-> name, text |-> text]

\* the directories: at most MaxFiles files, named in Names, with any text
Dirs ==
  UNION { [S -> FileTexts] : S \in {T \in SUBSET Names : Cardinality(T) <= MaxFiles} }

DiskOf(dir) == [n \in AllNames |-> IF n \in DOMAIN dir THEN dir[n] ELSE NoFile]

Idle ==
  /\ listing = {}
  /\ filename = NoName
  /\ content = <<>>
  /\ original_content = <<>>
  /\ hist = <<>>
  /\ result = "none"
  /\ fixed_count = 0
  /\ stdout = <<>>
  /\ ret = NoReturn
  /\ events = <<>>
  /\ calls = 0
  /\ applied = {}

\* main() is started in a working directory with or without cmd
Init ==
  /\ pc = "main"
  /\ shape = NoShape
  /\ cmd_exists \in BOOLEAN
  /\ linesep \in LineSeps
  /\ \E dir \in Dirs : disk = IF cmd_exists THEN DiskOf(dir) ELSE EmptyDisk
  /\ disk0 = disk
  /\ Idle

\* ------------------------------------------------------------------ main
\* the missing directory reported, and the walk made all the same
CheckDirNoReturn ==
  /\ pc = "main"
  /\ IF cmd_exists
     THEN stdout' = stdout
     ELSE stdout' = Append(stdout, Line("cmd directory not found!", NoName, 0))
  /\ fixed_count' = 0
  /\ pc' = "listdir"
  /\ UNCHANGED <<shape, cmd_exists, linesep, disk0, disk, listing, events,
                 calls, applied, ret>>
  /\ UNCHANGED fixVars

\* lines 50-55
CheckDir ==
  /\ pc = "main"
  /\ IF cmd_exists
     THEN /\ fixed_count' = 0
          /\ pc' = "listdir"
          /\ UNCHANGED <<stdout, ret>>
     ELSE /\ stdout' = Append(stdout, Line("cmd directory not found!", NoName, 0))
          /\ ret' = <<1>>
          /\ pc' = "exit"
          /\ UNCHANGED fixed_count
  /\ UNCHANGED <<shape, cmd_exists, linesep, disk0, disk, listing, events, calls, applied>>
  /\ UNCHANGED fixVars

\* line 57, os.listdir: the names of the directory, in no particular order
ListDir ==
  /\ pc = "listdir"
  /\ listing' = {n \in AllNames : disk[n] # NoFile}
  /\ events' = Append(events, Event("listdir", NoName, <<>>))
  /\ pc' = "loop"
  /\ UNCHANGED <<shape, cmd_exists, linesep, disk0, disk, fixed_count, stdout, ret, calls,
                 applied>>
  /\ UNCHANGED fixVars

\* lines 57-60: the next name of the listing; only a test file is fixed
LoopNext ==
  /\ pc = "loop"
  /\ \E n \in listing :
       /\ listing' = listing \ {n}
       /\ IF EndsWithTest(n)
          THEN filename' = n /\ pc' = "read"
          ELSE filename' = filename /\ pc' = "loop"
  /\ UNCHANGED <<shape, cmd_exists, linesep, disk0, disk, fixed_count, stdout, ret,
                 events, calls, applied, content, original_content, hist,
                 result>>

\* every file counted as fixed
AfterFixCountsAll ==
  /\ pc = "ret"
  /\ stdout' = Append(stdout, Line(IF result = TRUE THEN "Fixed"
                                   ELSE "No changes needed for", filename, 0))
  /\ fixed_count' = fixed_count + 1
  /\ pc' = "loop"
  /\ UNCHANGED <<shape, cmd_exists, linesep, disk0, disk, listing, ret,
                 events, calls, applied>>
  /\ UNCHANGED fixVars

\* lines 60-64: the report of one file and the count
AfterFix ==
  /\ pc = "ret"
  /\ IF result = TRUE
     THEN /\ stdout' = Append(stdout, Line("Fixed", filename, 0))
          /\ fixed_count' = fixed_count + 1
     ELSE /\ stdout' = Append(stdout, Line("No changes needed for", filename, 0))
          /\ fixed_count' = fixed_count
  /\ pc' = "loop"
  /\ UNCHANGED <<shape, cmd_exists, linesep, disk0, disk, listing, ret, events, calls,
                 applied>>
  /\ UNCHANGED fixVars

\* lines 66-67: the summary and the return code
Summary ==
  /\ pc = "loop"
  /\ listing = {}
  /\ stdout' = Append(stdout, Line("Fixed test files", NoName, fixed_count))
  /\ ret' = <<0>>
  /\ pc' = "exit"
  /\ UNCHANGED <<shape, cmd_exists, linesep, disk0, disk, listing, fixed_count,
                 events, calls, applied>>
  /\ UNCHANGED fixVars

\* --------------------------------------------------------- fix_test_file
\* lines 10-13
ReadFile ==
  /\ pc = "read"
  /\ content' = ReadText(disk[filename])
  /\ original_content' = content'
  /\ hist' = <<>>
  /\ result' = "none"
  /\ events' = Append(events, Event("read", filename, content'))
  /\ pc' = "r1"
  /\ UNCHANGED <<shape, linesep, disk, filename, calls>>
  /\ UNCHANGED mainVars

\* one re.sub of the chain: the text it leaves; hist keeps the text it was
\* given and how often it matched
Apply(r, next) ==
  /\ pc = r
  /\ content' = Sub(r, content)
  /\ hist' = Append(hist, [rule |-> r, from |-> content, n |-> Subn(r, content)])
  /\ pc' = next
  /\ UNCHANGED <<shape, linesep, disk, filename, original_content, result,
                 events, calls>>
  /\ UNCHANGED mainVars

\* line 24
ApplyRule1 == Apply("r1", "r2")

\* the rename made only in a file where rule 1 has matched
ApplyRule2Scoped ==
  /\ pc = "r2"
  /\ content' = IF hist[1].n > 0 THEN Sub("r2", content) ELSE content
  /\ hist' = Append(hist, [rule |-> "r2", from |-> content,
                           n |-> IF hist[1].n > 0 THEN Subn("r2", content) ELSE 0])
  /\ pc' = "r3a"
  /\ UNCHANGED <<shape, linesep, disk, filename, original_content, result,
                 events, calls>>
  /\ UNCHANGED mainVars

\* line 28
ApplyRule2 == Apply("r2", "r3a")
\* line 31
ApplyRule3a == Apply("r3a", "r3b")
\* line 32
ApplyRule3b == Apply("r3b", "r3c")
\* line 33
ApplyRule3c == Apply("r3c", "cmp")

\* the backup and the write made without the comparison of line 35
CompareAlways ==
  /\ pc = "cmp"
  /\ pc' = "bopen"
  /\ UNCHANGED <<shape, linesep, disk, filename, content, original_content,
                 hist, result, events, calls>>
  /\ UNCHANGED mainVars

\* lines 35 and 45
Compare ==
  /\ pc = "cmp"
  /\ IF content # original_content
     THEN pc' = "bopen" /\ result' = result
     ELSE pc' = "ret" /\ result' = FALSE
  /\ UNCHANGED <<shape, linesep, disk, filename, content, original_content,
                 hist, events, calls>>
  /\ UNCHANGED mainVars

\* open(path, 'w'): the file is created, or cut to nothing
OpenW(name, next) ==
  /\ disk' = [disk EXCEPT ![name] = <<>>]
  /\ events' = Append(events, Event("openw", name, <<>>))
  /\ pc' = next
  /\ UNCHANGED <<shape, linesep, filename, content, original_content, hist,
                 result, calls>>
  /\ UNCHANGED mainVars

\* f.write(text) and the close at the end of the with block
WriteW(name, text, next) ==
  /\ disk' = [disk EXCEPT ![name] = WriteText(text, linesep)]
  /\ events' = Append(events, Event("write", name, text))
  /\ pc' = next
  /\ UNCHANGED <<shape, linesep, filename, content, original_content, hist,
                 calls>>
  /\ UNCHANGED mainVars

\* line 37
OpenBackup == pc = "bopen" /\ OpenW(BackupOf(filename), "bwrite")
\* line 38
WriteBackup ==
  pc = "bwrite" /\ WriteW(BackupOf(filename), original_content, "fopen")
  /\ result' = result
\* line 41
OpenFile == pc = "fopen" /\ OpenW(filename, "fwrite")
\* lines 42 and 44
WriteFile ==
  pc = "fwrite" /\ WriteW(filename, content, "ret") /\ result' = TRUE

\* an OSError of listdir, open, read or write: nothing catches it, so it
\* ends main.  A failing write leaves any part of the text in the file.
IOError ==
  /\ pc \in {"listdir", "read", "bopen", "bwrite", "fopen", "fwrite"}
  /\ IF pc \in {"bwrite", "fwrite"}
     THEN LET name == IF pc = "bwrite" THEN BackupOf(filename) ELSE filename
              full == WriteText(IF pc = "bwrite" THEN original_content
                                ELSE content, linesep)
          IN \E k \in 0..Len(full) :
               disk' = [disk EXCEPT ![name] = SubSeq(full, 1, k)]
     ELSE disk' = disk
  /\ events' = Append(events, Event("error", filename, <<pc>>))
  /\ pc' = "crashed"
  /\ UNCHANGED <<shape, linesep, calls>>
  /\ UNCHANGED mainVars
  /\ UNCHANGED fixVars

\* a step of the program in which no I/O call fails
Step ==
  \/ CheckDir \/ ListDir \/ LoopNext \/ AfterFix \/ Summary
  \/ ReadFile \/ ApplyRule1 \/ ApplyRule2 \/ ApplyRule3a \/ ApplyRule3b
  \/ ApplyRule3c \/ Compare \/ OpenBackup \/ WriteBackup \/ OpenFile
  \/ WriteFile

Next == Step \/ IOError

Spec == Init /\ [][Next]_vars

\* ------------------------------------- fix_test_file, run twice on a file
TheFile == <<"a", TestSuffix>>

\* fix_test_file(path) on a file holding any of the bounded texts
InitFix ==
  /\ pc = "read"
  /\ shape \in Shapes
  /\ cmd_exists = TRUE
  /\ linesep = <<NL>>
  /\ disk = [EmptyDisk EXCEPT ![TheFile] = InputOf(shape)]
  /\ disk0 = disk
  /\ listing = {}
  /\ filename = TheFile
  /\ content = <<>>
  /\ original_content = <<>>
  /\ hist = <<>>
  /\ result = "none"
  /\ fixed_count = 0
  /\ stdout = <<>>
  /\ ret = NoReturn
  /\ events = <<>>
  /\ calls = 1
  /\ applied = {}

\* the tool is run again on the file it has left: a new call of
\* fix_test_file, with new local variables
Rerun ==
  /\ pc = "ret"
  /\ calls = 1
  /\ calls' = 2
  /\ pc' = "read"
  /\ content' = <<>>
  /\ original_content' = <<>>
  /\ hist' = <<>>
  /\ result' = "none"
  /\ UNCHANGED <<shape, linesep, disk, events, filename>>
  /\ UNCHANGED mainVars

NextFix ==
  \/ ReadFile \/ ApplyRule1 \/ ApplyRule2 \/ ApplyRule3a \/ ApplyRule3b
  \/ ApplyRule3c \/ Compare \/ OpenBackup \/ WriteBackup \/ OpenFile
  \/ WriteFile \/ Rerun

SpecFix == InitFix /\ [][NextFix]_vars

\* ------------------------------- the five substitutions, in any order
RuleSet == {Rules[k] : k \in 1..Len(Rules)}

InitOrder ==
  /\ pc = "order"
  /\ shape \in Shapes
  /\ cmd_exists = TRUE
  /\ linesep = <<NL>>
  /\ disk = EmptyDisk
  /\ disk0 = disk
  /\ listing = {}
  /\ filename = NoName
  /\ content = InputOf(shape)
  /\ original_content = content
  /\ hist = <<>>
  /\ result = "none"
  /\ fixed_count = 0
  /\ stdout = <<>>
  /\ ret = NoReturn
  /\ events = <<>>
  /\ calls = 0
  /\ applied = {}

\* one of the five re.sub calls that has not been made yet
ApplyAny(r) ==
  /\ pc = "order"
  /\ r \notin applied
  /\ content' = Sub(r, content)
  /\ applied' = applied \cup {r}
  /\ UNCHANGED <<pc, shape, cmd_exists, linesep, disk0, disk, listing, filename,
                 original_content, hist, result, fixed_count, stdout, ret,
                 events, calls>>

NextOrder == \E r \in RuleSet : ApplyAny(r)

SpecOrder == InitOrder /\ [][NextOrder]_vars

\* =================================================== the rule chain
\* the text rule 1 has left, once line 24 has run
Out1 == IF Len(hist) >= 2 THEN hist[2].from ELSE content

\* at least one whitespace character stands right before the idiom
PrecededBySpace(sh) ==
  sh.ind # <<>> \/ (sh.pre # <<>> /\ IsSpace(sh.pre[Len(sh.pre)]))

\* C5 as claimed: a block of the four statements, with or without the
\* leading comment line and with or without a '// Given:' comment line after
\* it, is replaced as a whole, the comment lines included, by the helper call
\* behind the indentation, whatever the indentation.
C5_BlockWithFollowingComment ==
  (shape.core = "block" /\ shape.given = "none" /\ calls = 1 /\ Len(hist) >= 1)
    => Out1 = shape.pre \o shape.ind \o <<WID>> \o shape.post

\* C5 (amended): a block of the four statements, with or without the leading
\* comment line and with or without a comment line beginning '// Given: '
\* between the second and the third statement, that has at least one
\* whitespace character before it, is replaced as a whole by the whitespace
\* before it followed by the helper call; the text around the block, a
\* '// Given:' line after the fourth statement included, is unchanged.
C5_BlockCollapsed ==
  (/\ shape.core = "block"
   /\ shape.given \in {"none", "text", "call", "empty"}
   /\ PrecededBySpace(shape)
   /\ calls = 1
   /\ Len(hist) >= 1)
    => /\ hist[1].n = 1
       /\ Out1 = shape.pre \o shape.ind \o <<WID>>
                 \o AfterText(shape.ind, shape.after) \o shape.post

C5_Witness ==
  /\ calls = 1
  /\ pc = "r2"
  /\ shape.core = "block"
  /\ shape.lead
  /\ shape.given = "text"
  /\ shape.after
  /\ shape.ind = <<TAB>>
  /\ shape.pre = <<X, NL>>
  /\ content = <<X, NL, TAB, WID, NL, TAB, CGiven, SP, X>> \o shape.post

\* the calls of a text from left to right: "old" for getFreshRootCmd(),
\* "new" for GetCommandInDirectory(workingDir)
RECURSIVE Marks(_)
Marks(text) ==
  IF text = <<>> THEN <<>>
  ELSE IF Len(text) >= 2 /\ text[1] = GFRC /\ text[2] = PARENS
       THEN <<"old">> \o Marks(Tail(Tail(text)))
       ELSE IF text[1] = GCID THEN <<"new">> \o Marks(Tail(text))
            ELSE Marks(Tail(text))

AllNew(m) == [k \in 1..Len(m) |-> "new"]

Olds(m) == Cardinality({k \in 1..Len(m) : m[k] = "old"})

InCall(text, i) ==
  /\ text[i] = DDX
  /\ \/ Tok(text, i - 1) \in {OWF, ORF}
     \/ Tok(text, i - 1) = SP /\ Tok(text, i - 2) = AFE

\* the text with ins in the place of every such name
RECURSIVE QualifyFrom(_, _, _)
QualifyFrom(text, i, ins) ==
  IF i > Len(text) THEN <<>>
  ELSE (IF InCall(text, i) THEN ins ELSE <<text[i]>>)
       \o QualifyFrom(text, i + 1, ins)

\* opening minus closing parentheses of a token, and of a text
ParenBalance(t) ==
  IF t \in {AFE, OWF, ORF, FJ, WID} THEN 1 ELSE IF t = RP THEN 0 - 1 ELSE 0

RECURSIVE Balance(_)
Balance(text) ==
  IF text = <<>> THEN 0 ELSE ParenBalance(Head(text)) + Balance(Tail(text))

\* C7 as claimed: the three passes put filepath.Join(workingDir, ".ddx.yml"
\* in the place of the quoted name and add no closing parenthesis, so the
\* result has one more opening than closing parenthesis for every call.
C7_NoClosingParenthesis ==
  (calls = 1 /\ Len(hist) = 5)
    => content = QualifyFrom(hist[3].from, 1, <<FJ, SP, DDX>>)

\* C7 (amended): the three passes put filepath.Join(workingDir, ".ddx.yml")
\* with its closing parenthesis in the place of the quoted name and leave
\* the rest of the text unchanged, so the parentheses stay balanced.
C7_PathQualified ==
  (calls = 1 /\ Len(hist) = 5)
    => /\ content = QualifyFrom(hist[3].from, 1, <<FJ, SP, DDX, RP>>)
       /\ Balance(content) = Balance(hist[3].from)

C7_Witness ==
  /\ calls = 1
  /\ pc = "cmp"
  /\ original_content = <<AFE, SP, DDX, RP, NL>>
  /\ content = <<AFE, SP, FJ, SP, DDX, RP, RP, NL>>
  /\ Balance(content) = 0

\* the trigger shapes
HasCall(text) ==
  \E k \in 1..Len(text) : text[k] = GFRC /\ Tok(text, k + 1) = PARENS

HasPathCall(text) == \E k \in 1..Len(text) : InCall(text, k)

NonSpace(text) == SelectSeq(text, LAMBDA t : ~IsSpace(t))

\* the four statements in their order with nothing but whitespace between
\* them, or with a '// Given:' comment between the second and the third
HasIdiom(text) ==
  LET q == NonSpace(text)
  IN \E k \in 1..Len(q) :
       /\ q[k] = S1
       /\ Tok(q, k + 1) = S2
       /\ \/ Tok(q, k + 2) = S3 /\ Tok(q, k + 3) = S4
          \/ /\ Tok(q, k + 2) = CGiven
             /\ \E m \in (k + 3)..Len(q) : q[m] = S3 /\ Tok(q, m + 1) = S4

HasTrigger(text) == HasIdiom(text) \/ HasCall(text) \/ HasPathCall(text)

\* C8: a text with none of the trigger shapes leaves the chain as it came,
\* no rule having matched; fix_test_file returns False for it and opens
\* neither the file nor a backup for writing.
C8_NoSpuriousChange ==
  (~HasTrigger(original_content) /\ Len(hist) = 5)
    => /\ content = original_content
       /\ \A k \in 1..5 : hist[k].n = 0
       /\ pc \in {"cmp", "ret"}
       /\ pc = "ret" => result = FALSE
       /\ events[Len(events)].op = "read"
       /\ calls = 1 => disk = disk0

C8_Witness ==
  /\ calls = 1
  /\ pc = "ret"
  /\ result = FALSE
  /\ shape.core = "extra"
  /\ shape.pre = <<GFRC>>
  /\ shape.post = <<RP>>
  /\ ~HasTrigger(original_content)
  /\ disk = disk0

\* the chain applied to its own result: does rule 2 or a pass of rule 3 match
FiresAgain(text) ==
  LET t0 == Rewrite(text)
      t1 == Sub("r1", t0)
      t2 == Sub("r2", t1)
      t3 == Sub("r3a", t2)
      t4 == Sub("r3b", t3)
  IN \/ Subn("r2", t1) > 0
     \/ Subn("r3a", t2) > 0
     \/ Subn("r3b", t3) > 0
     \/ Subn("r3c", t4) > 0

\* C9 as claimed: there is a text for which, when the chain is applied again
\* to its own result, rule 2 or a pass of rule 3 makes a substitution.
C9_Rule23FireAgain ==
  FiresAgain(original_content) \/ \E sh \in Shapes : FiresAgain(InputOf(sh))

\* C9 (amended): when the tool is run again on the file it has left, rule 2
\* and the three passes of rule 3 make no substitution, whatever the text;
\* if the second run changes the file at all, it is rule 1 that matched.
C9_Rule23Quiet ==
  calls = 2
    => /\ \A k \in 1..Len(hist) : hist[k].rule # "r1" => hist[k].n = 0
       /\ (Len(hist) = 5 /\ content # original_content) => hist[1].n > 0

C9_Witness ==
  /\ calls = 2
  /\ pc = "ret"
  /\ result = FALSE
  /\ shape.pre = <<GFRC, PARENS, NL>>
  /\ shape.post = <<NL, ORF, DDX, RP>>
  /\ \E k \in 1..Len(events) : events[k].op = "write" /\ events[k].name = TheFile

\* the texts the rules of S leave when each is applied once, in any order:
\* a set of pairs <<S, texts>> for the sets S of n rules
RECURSIVE InAnyOrder(_, _)
InAnyOrder(text, n) ==
  IF n = 0 THEN {<<{}, {text}>>}
  ELSE LET prev == InAnyOrder(text, n - 1)
           Of(S) == (CHOOSE p \in prev : p[1] = S)[2]
       IN { <<S, UNION {{Sub(r, t) : t \in Of(S \ {r})} : r \in S}>> :
              S \in {T \in SUBSET RuleSet : Cardinality(T) = n} }

\* the final texts of all orders of the five substitutions
Finals(text) == (CHOOSE p \in InAnyOrder(text, 5) : p[1] = RuleSet)[2]

OrderDependent(text) == Finals(text) # {Rewrite(text)}

TestFiles == {n \in AllNames : EndsWithTest(n)}

Did(o, n) == \E k \in 1..Len(events) : events[k].op = o /\ events[k].name = n

WasRead(n) == Did("read", n)
OpenedW(n) == Did("openw", n)
Wrote(n) == Did("write", n)

\* the text fix_test_file read from file n
TextRead(n) ==
  events[CHOOSE k \in 1..Len(events) :
           events[k].op = "read" /\ events[k].name = n].text

Changed(n) == Rewrite(TextRead(n)) # TextRead(n)

\* fix_test_file has returned for file n and main has printed its line
Reported(n) ==
  \E k \in 1..Len(stdout) :
    stdout[k].name = n /\ stdout[k].line \in {"Fixed", "No changes needed for"}

SummaryLines == {k \in 1..Len(stdout) : stdout[k].line = "Fixed test files"}

Backups == {n \in TestFiles : Wrote(BackupOf(n))}

Failed == \E k \in 1..Len(events) : events[k].op = "error"

\* the run is over: main has returned, or an exception has ended it
Over == pc \in {"exit", "crashed"}

NeverWritten(n) == ~OpenedW(n) /\ ~OpenedW(BackupOf(n))

SummaryCountsBackups ==
  \A k \in SummaryLines : stdout[k].n = Cardinality(Backups)

C2_PreRunTextKept ==
  /\ \A k \in 1..Len(events) :
       (events[k].op = "openw" /\ events[k].name \in TestFiles)
         => \E j \in 1..(k - 1) :
              /\ events[j].op = "write"
              /\ events[j].name = BackupOf(events[k].name)
              /\ events[j].text = TextRead(events[k].name)
  /\ \A n \in TestFiles :
       WasRead(n) => (disk[n] = disk0[n] \/ disk[BackupOf(n)] = disk0[n])

\* C3: without the cmd directory main returns 1 and has listed, read and
\* written nothing; with it, and with no failing I/O step, the run is not
\* cut short and ends with main returning 0, the summary printed and every
\* test file of the directory processed, whatever the number of files
\* changed.
C3_ReturnCodes ==
  /\ (~cmd_exists /\ pc # "main")
       => (pc = "exit" /\ ret = <<1>> /\ events = <<>> /\ disk = disk0)
  /\ ret = <<1>> => ~cmd_exists
  /\ (cmd_exists /\ ~Failed)
       => /\ pc # "crashed"
          /\ Over => /\ ret = <<0>>
                     /\ SummaryLines # {}
                     /\ \A n \in TestFiles : disk0[n] # NoFile => Reported(n)

C3_Witness ==
  /\ pc = "exit"
  /\ ret = <<0>>
  /\ fixed_count = 0
  /\ \E n \in TestFiles : Reported(n)
  /\ disk = disk0

\* C4: an I/O failure on one file ends the processing of that file only:
\* the other test files of the directory are still processed and the
\* summary line is printed.
C4_FailureSkipsOneFile ==
  (Over /\ \E k \in 1..Len(events) :
             events[k].op = "error" /\ events[k].name # NoName)
    => /\ SummaryLines # {}
       /\ \A n \in TestFiles :
            disk0[n] # NoFile => (WasRead(n) \/ Did("error", n))

====
